---- MODULE Spec2Model ----
(***************************************************************************)
(* Model of backend/documents.py: the Node / Tree data model.             *)
(*                                                                         *)
(* Nodes are numbered 1..Len(data) in creation order; node 1 is the root   *)
(* handed to Tree(root=...).  A node's fields are the entries of the       *)
(* sequences data, parent, child_nodes and deleted at its number.          *)
(* parent = None is written 0.                                             *)
(*                                                                         *)
(* docs_passed and leaf_origin are history variables: the number of        *)
(* Document items passed to add_nodes so far, and, for each entry of       *)
(* leaf_nodes, whether a call with a Document in its dataset pushed it.    *)
(*                                                                         *)
(* A text (str) is a sequence of characters.  The character "E" stands for *)
(* a special token of the encoding (such as <|endoftext|>), on which       *)
(* tiktoken's Encoding.encode raises ValueError.                           *)
(***************************************************************************)
EXTENDS Integers, Sequences, FiniteSets, TLC

(* ------------------------------ bounds --------------------------------- *)
MaxNodes == 3
MaxLeaf == 3
MaxDataset == 2
MaxDetached == 1

(* ------------------------------ payloads ------------------------------- *)
Doc(t) == [kind |-> "Document", text |-> t]
Qry(t) == [kind |-> "Query", text |-> t]

DocTexts == {<<"a">>, <<"E">>}
QueryTexts == {<<"a", "a">>}

Items == {Doc(t) : t \in DocTexts} \cup {Qry(t) : t \in QueryTexts}

RECURSIVE SeqsUpTo(_, _)
SeqsUpTo(S, n) ==
    IF n = 0 THEN {<<>>}
    ELSE LET shorter == SeqsUpTo(S, n - 1)
         IN  shorter \cup {Append(s, x) : s \in {q \in shorter : Len(q) = n - 1}, x \in S}

\* What a caller may pass as `dataset`: a list of items, or one bare item.
Datasets ==
    {[single |-> FALSE, items |-> s] : s \in SeqsUpTo(Items, MaxDataset)}
        \cup {[single |-> TRUE, items |-> <<x>>] : x \in Items}

NoDataset == [single |-> FALSE, items |-> <<>>]

(* ------------------------------ state ---------------------------------- *)
VARIABLES data, parent, child_nodes, deleted,
          tokens, leaf_nodes, doc_node_num,
          call, result, docs_passed, leaf_origin

node_vars == <<data, parent, child_nodes, deleted>>
tree_vars == <<tokens, leaf_nodes, doc_node_num>>
vars == <<data, parent, child_nodes, deleted, tokens, leaf_nodes, doc_node_num,
          call, result, docs_passed, leaf_origin>>

root == 1
Nodes == 1..Len(data)

NoResult == [nodes |-> <<>>, docs |-> <<>>]

(* ------------------------------ Node ----------------------------------- *)
node_type(d) == IF d.kind = "Document" THEN "Document" ELSE "Query"

\* Node.all_nodes with the children visited before the node itself.
RECURSIVE Node_all_nodes_post(_, _), ExtendEachPost(_, _, _)
ExtendEachPost(cn, nodes, kids) ==
    IF kids = <<>> THEN nodes
    ELSE ExtendEachPost(cn, nodes \o Node_all_nodes_post(cn, Head(kids)), Tail(kids))
Node_all_nodes_post(cn, n) == ExtendEachPost(cn, <<>>, cn[n]) \o <<n>>

\* Node.all_nodes: nodes = [self]; for node in child_nodes: nodes.extend(node.all_nodes())
RECURSIVE Node_all_nodes(_, _), ExtendEach(_, _, _)
ExtendEach(cn, nodes, kids) ==
    IF kids = <<>> THEN nodes
    ELSE ExtendEach(cn, nodes \o Node_all_nodes(cn, Head(kids)), Tail(kids))
Node_all_nodes(cn, n) == ExtendEach(cn, <<n>>, cn[n])

\* Node.all_documents without the test of the deleted flag.
Node_all_documents_any(cn, dt, del, n) ==
    LET nodes == Node_all_nodes(cn, n)
        kept == SelectSeq(nodes, LAMBDA m : node_type(dt[m]) = "Document")
    IN  [i \in 1..Len(kept) |-> dt[kept[i]]]

\* Node.all_documents: the data of the Document nodes of all_nodes() not deleted.
Node_all_documents(cn, dt, del, n) ==
    LET nodes == Node_all_nodes(cn, n)
        kept == SelectSeq(nodes, LAMBDA m : node_type(dt[m]) = "Document" /\ del[m] = FALSE)
    IN  [i \in 1..Len(kept) |-> dt[kept[i]]]

Tree_all_nodes == Node_all_nodes(child_nodes, root)
Tree_all_documents == Node_all_documents(child_nodes, data, deleted, root)

(* --------------------------- Tree.add_nodes ---------------------------- *)
\* isinstance(dataset, Sequence): a list is one, and so is a str (Query = str);
\* a Document is not.
IsSequence(ds) == ~ds.single \/ ds.items[1].kind = "Query"

\* The items `for data in dataset` yields after lines 92-93: a bare Document is
\* wrapped in a list, a list yields its items, a str yields its characters.
Normalize(ds) ==
    IF ~IsSequence(ds) THEN ds.items
    ELSE IF ds.single
         THEN [i \in 1..Len(ds.items[1].text) |-> Qry(<<ds.items[1].text[i]>>)]
         ELSE ds.items

\* documents = [data for data in dataset if isinstance(data, Document)]
Documents(items) == SelectSeq(items, LAMBDA d : d.kind = "Document")

Reverse(s) == [i \in 1..Len(s) |-> s[Len(s) + 1 - i]]

\* deque.extendleft(xs): appendleft of each x in turn, so xs ends up reversed.
extendleft(dq, xs) == Reverse(xs) \o dq
\* deque.extend(xs)
extend(dq, xs) == dq \o xs

\* ''.join(doc.page_content for doc in documents)
RECURSIVE Join(_)
Join(docs) == IF docs = <<>> THEN <<>> ELSE Head(docs).text \o Join(Tail(docs))

\* Encoding.encode raises ValueError on a text holding a special token.
EncodeRaises(text) == \E i \in 1..Len(text) : text[i] = "E"

\* Encoding.encode: byte-pair encoding with the one merge a+a -> aa, so that the
\* count of a concatenation is not the sum of the counts of its parts.
RECURSIVE encode(_)
encode(text) ==
    IF text = <<>> THEN <<>>
    ELSE IF Len(text) >= 2 /\ text[1] = "a" /\ text[2] = "a"
         THEN <<"aa">> \o encode(SubSeq(text, 3, Len(text)))
         ELSE <<text[1]>> \o encode(Tail(text))

\* The leaf queue when every batch is pushed at the back.
leaf_nodes_back(dq, kids, documents) == extend(dq, kids)

\* The leaf queue when every batch is pushed at the front.
leaf_nodes_front(dq, kids, documents) == extendleft(dq, kids)

\* The leaf queue when the batch replaces what the queue held.
leaf_nodes_only(dq, kids, documents) == kids

\* The leaf queue with the two ends exchanged.
leaf_nodes_swapped(dq, kids, documents) ==
    IF documents # <<>> THEN extend(dq, kids) ELSE extendleft(dq, kids)

\* The leaf queue when a child already in the queue is not pushed again.
leaf_nodes_new_only(dq, kids, documents) ==
    LET fresh == SelectSeq(kids, LAMBDA c : \A i \in 1..Len(dq) : dq[i] # c)
    IN  IF documents # <<>> THEN extendleft(dq, fresh) ELSE extend(dq, fresh)

\* Lines 96-97, 101-103: the leaf queue after the push of parent.child_nodes.
leaf_nodes_after(dq, kids, documents) ==
    IF documents # <<>> THEN extendleft(dq, kids) ELSE extend(dq, kids)

\* The document count when a batch counts as one.
doc_node_num_one(num, documents) == num + 1

\* Line 98: self.doc_node_num += len(documents)
doc_node_num_after(num, documents) == num + Len(documents)

RECURSIVE SumOfCounts(_)
SumOfCounts(docs) ==
    IF docs = <<>> THEN 0 ELSE Len(encode(Head(docs).text)) + SumOfCounts(Tail(docs))

\* The token count when every document is encoded on its own.
tokens_each(tok, documents) == tok + SumOfCounts(documents)

\* Lines 99-100: self.tokens += len(self._encoding.encode(doc_texts))
tokens_after(tok, documents) == tok + Len(encode(Join(documents)))

\* Node.add_child_nodes that puts the new nodes before the children it has.
add_child_nodes_first(p, items) ==
    LET n == Len(data)
        k == Len(items)
        nodes == [i \in 1..k |-> n + i]
    IN  /\ data' = data \o items
        /\ parent' = parent \o [i \in 1..k |-> p]
        /\ child_nodes' = [child_nodes EXCEPT ![p] = nodes \o @] \o [i \in 1..k |-> <<>>]
        /\ deleted' = deleted \o [i \in 1..k |-> FALSE]

\* Node.add_child_nodes: one new Node(data=data, parent=self) per item, appended
\* to self.child_nodes in order.
add_child_nodes(p, items) ==
    LET n == Len(data)
        k == Len(items)
        nodes == [i \in 1..k |-> n + i]
    IN  /\ data' = data \o items
        /\ parent' = parent \o [i \in 1..k |-> p]
        /\ child_nodes' = [child_nodes EXCEPT ![p] = @ \o nodes] \o [i \in 1..k |-> <<>>]
        /\ deleted' = deleted \o [i \in 1..k |-> FALSE]

\* Tree.add_nodes(parent, dataset).  When encode raises (line 100) the call ends
\* there: lines 94, 97 and 98 have taken effect, the update of tokens has not.
add_nodes(p, ds) ==
    LET items == Normalize(ds)
        documents == Documents(items)
        raises == documents # <<>> /\ EncodeRaises(Join(documents))
    IN  /\ Len(data) + Len(items) <= MaxNodes
        /\ Len(leaf_nodes) + Len(child_nodes[p]) + Len(items) <= MaxLeaf
        /\ add_child_nodes(p, items)
        /\ leaf_nodes' = leaf_nodes_after(leaf_nodes, child_nodes'[p], documents)
        /\ IF documents # <<>>
           THEN /\ doc_node_num' = doc_node_num_after(doc_node_num, documents)
                /\ tokens' = IF raises THEN tokens ELSE tokens_after(tokens, documents)
           ELSE UNCHANGED <<doc_node_num, tokens>>
        /\ call' = [op |-> "add_nodes", node |-> p, dataset |-> ds, raised |-> raises,
                    was_deleted |-> FALSE]
        /\ result' = NoResult
        /\ docs_passed' = docs_passed + Len(Documents(ds.items))
        /\ leaf_origin' = leaf_nodes_after(leaf_origin,
                              [i \in 1..Len(child_nodes'[p]) |-> documents # <<>>],
                              documents)

\* Node.delete that also takes the document out of the count.
delete_uncount(n) ==
    /\ deleted' = [deleted EXCEPT ![n] = TRUE]
    /\ doc_node_num' = IF node_type(data[n]) = "Document" /\ doc_node_num > 0
                       THEN doc_node_num - 1 ELSE doc_node_num
    /\ call' = [op |-> "delete", node |-> n, dataset |-> NoDataset, raised |-> FALSE,
               was_deleted |-> deleted[n]]
    /\ result' = NoResult
    /\ UNCHANGED <<data, parent, child_nodes, tokens, leaf_nodes, docs_passed, leaf_origin>>

\* Node.delete that flips the flag.
delete_toggle(n) ==
    /\ deleted' = [deleted EXCEPT ![n] = ~@]
    /\ call' = [op |-> "delete", node |-> n, dataset |-> NoDataset, raised |-> FALSE,
               was_deleted |-> deleted[n]]
    /\ result' = NoResult
    /\ UNCHANGED <<data, parent, child_nodes, tokens, leaf_nodes, doc_node_num, docs_passed, leaf_origin>>

\* Node.delete that deletes the children of the node too.
delete_cascade(n) ==
    /\ deleted' = [m \in 1..Len(deleted) |-> deleted[m] \/ m = n \/ parent[m] = n]
    /\ call' = [op |-> "delete", node |-> n, dataset |-> NoDataset, raised |-> FALSE,
               was_deleted |-> deleted[n]]
    /\ result' = NoResult
    /\ UNCHANGED <<data, parent, child_nodes, tokens, leaf_nodes, doc_node_num, docs_passed, leaf_origin>>

\* Node.delete: self.deleted = True
delete(n) ==
    /\ deleted' = [deleted EXCEPT ![n] = TRUE]
    /\ call' = [op |-> "delete", node |-> n, dataset |-> NoDataset, raised |-> FALSE,
               was_deleted |-> deleted[n]]
    /\ result' = NoResult
    /\ UNCHANGED <<data, parent, child_nodes, tokens, leaf_nodes, doc_node_num, docs_passed, leaf_origin>>

\* Node(data=d): a caller constructs a node of its own, with no parent and no
\* children; the Tree does not know it.
Detached == {n \in Nodes : n # root /\ parent[n] = 0}

Node(d) ==
    /\ Len(data) < MaxNodes
    /\ Cardinality(Detached) < MaxDetached
    /\ data' = Append(data, d)
    /\ parent' = Append(parent, 0)
    /\ child_nodes' = Append(child_nodes, <<>>)
    /\ deleted' = Append(deleted, FALSE)
    /\ call' = [op |-> "Node", node |-> Len(data) + 1, dataset |-> NoDataset, raised |-> FALSE,
               was_deleted |-> FALSE]
    /\ result' = NoResult
    /\ UNCHANGED <<tokens, leaf_nodes, doc_node_num, docs_passed, leaf_origin>>

\* A call of n.all_nodes() (Tree.all_nodes() is root.all_nodes()).
all_nodes(n) ==
    /\ result' = [nodes |-> Node_all_nodes(child_nodes, n), docs |-> <<>>]
    /\ call' = [op |-> "all_nodes", node |-> n, dataset |-> NoDataset, raised |-> FALSE,
               was_deleted |-> FALSE]
    /\ UNCHANGED <<data, parent, child_nodes, deleted, tokens, leaf_nodes, doc_node_num, docs_passed, leaf_origin>>

\* A call of n.all_documents() (Tree.all_documents() is root.all_documents()).
all_documents(n) ==
    /\ result' = [nodes |-> <<>>, docs |-> Node_all_documents(child_nodes, data, deleted, n)]
    /\ call' = [op |-> "all_documents", node |-> n, dataset |-> NoDataset, raised |-> FALSE,
               was_deleted |-> FALSE]
    /\ UNCHANGED <<data, parent, child_nodes, deleted, tokens, leaf_nodes, doc_node_num, docs_passed, leaf_origin>>

RootItems == {Qry(<<"a", "a">>)}

\* Tree(root=Node(data=d)): tokens = 0, leaf_nodes = deque(), doc_node_num = 0.
Init ==
    /\ \E d \in RootItems : data = <<d>>
    /\ parent = <<0>>
    /\ child_nodes = << <<>> >>
    /\ deleted = <<FALSE>>
    /\ tokens = 0
    /\ leaf_nodes = <<>>
    /\ doc_node_num = 0
    /\ call = [op |-> "Tree", node |-> root, dataset |-> NoDataset, raised |-> FALSE,
               was_deleted |-> FALSE]
    /\ result = NoResult
    /\ docs_passed = 0
    /\ leaf_origin = <<>>

Next ==
    \/ \E p \in Nodes, ds \in Datasets : add_nodes(p, ds)
    \/ \E n \in Nodes : delete(n)
    \/ \E d \in RootItems : Node(d)
    \/ \E n \in Nodes : all_nodes(n)
    \/ \E n \in Nodes : all_documents(n)

Spec == Init /\ [][Next]_vars

TypeOK ==
    /\ Len(data) <= MaxNodes
    /\ Len(parent) = Len(data) /\ Len(child_nodes) = Len(data) /\ Len(deleted) = Len(data)
    /\ \A n \in Nodes : data[n].kind \in {"Document", "Query"}
    /\ tokens \in Nat /\ doc_node_num \in Nat
    /\ Len(leaf_nodes) <= MaxLeaf

(* ------------------------- auxiliary notions --------------------------- *)
\* m is n or a descendant of n, following parent links.
RECURSIVE Under(_, _, _)
Under(par, n, m) == m = n \/ (par[m] # 0 /\ Under(par, n, par[m]))

Range(s) == {s[i] : i \in 1..Len(s)}
Occurrences(s, x) == Cardinality({i \in 1..Len(s) : s[i] = x})

HasDocument(ds) == \E i \in 1..Len(ds.items) : ds.items[i].kind = "Document"

\* The step is a call of add_nodes / delete / all_nodes.
AddStep == call'.op = "add_nodes"
DeleteStep == call'.op = "delete"

(* ------------------------------- C1 ------------------------------------ *)
\* C1 as stated: after add_nodes(parent, dataset) with at least one Document in
\* dataset, leaf_nodes is parent.child_nodes, in child order, followed by the
\* previous contents of leaf_nodes.
C1_AsStated ==
    [][(AddStep /\ HasDocument(call'.dataset))
         => leaf_nodes' = child_nodes'[call'.node] \o leaf_nodes]_vars

\* C1 amended: after add_nodes(parent, dataset) with at least one Document in
\* dataset, the first k entries of leaf_nodes are parent.child_nodes [c1..ck] in
\* REVERSE order, ck, ..., c1, followed by the previous contents of leaf_nodes.
C1_FrontReversed ==
    [][(AddStep /\ HasDocument(call'.dataset))
         => LET kids == child_nodes'[call'.node]
                k == Len(kids)
            IN  /\ Len(leaf_nodes') = k + Len(leaf_nodes)
                /\ \A i \in 1..k : leaf_nodes'[i] = kids[k + 1 - i]
                /\ \A j \in 1..Len(leaf_nodes) : leaf_nodes'[k + j] = leaf_nodes[j]]_vars

\* A document batch has just been pushed: parent has two children or more and
\* the queue held entries before.
C1_Witness ==
    /\ call.op = "add_nodes" /\ HasDocument(call.dataset)
    /\ Len(child_nodes[call.node]) >= 2
    /\ Len(leaf_nodes) > Len(child_nodes[call.node])
    /\ leaf_nodes[1] = child_nodes[call.node][Len(child_nodes[call.node])]

(* ------------------------------- C2 ------------------------------------ *)
\* C2: add_nodes(parent, item) with one bare item (a Document or a Query string)
\* appends exactly one new child to parent.child_nodes, whose data is the item.
C2_SingleItemOneChild ==
    [][(AddStep /\ call'.dataset.single)
         => /\ Len(data') = Len(data) + 1
            /\ child_nodes'[call'.node] = Append(child_nodes[call'.node], Len(data) + 1)
            /\ data'[Len(data) + 1] = call'.dataset.items[1]]_vars

(* ------------------------------- C3 ------------------------------------ *)
\* C3: an add_nodes call that raises leaves parent.child_nodes, leaf_nodes,
\* doc_node_num and tokens as they were before the call.
C3_AllOrNothing ==
    [][(AddStep /\ call'.raised)
         => /\ child_nodes'[call'.node] = child_nodes[call'.node]
            /\ leaf_nodes' = leaf_nodes
            /\ doc_node_num' = doc_node_num
            /\ tokens' = tokens]_vars

(* ------------------------------- C4 ------------------------------------ *)
\* C4: doc_node_num is the number of Document items passed to add_nodes so far,
\* whatever delete calls were made.
C4_DocNodeNum == doc_node_num = docs_passed

\* Two documents were passed in one call and a Document node was since deleted.
C4_Witness ==
    /\ doc_node_num >= 2
    /\ \E n \in Nodes : deleted[n] /\ data[n].kind = "Document" /\ parent[n] # 0

(* ------------------------------- C5 ------------------------------------ *)
\* The page_content of the Documents of a dataset, concatenated in dataset order.
RECURSIVE DocText(_)
DocText(items) ==
    IF items = <<>> THEN <<>>
    ELSE (IF Head(items).kind = "Document" THEN Head(items).text ELSE <<>>)
             \o DocText(Tail(items))

C6_QueryOnlyBack ==
    [][(AddStep /\ ~HasDocument(call'.dataset))
         => LET old == child_nodes[call'.node]
                kids == child_nodes'[call'.node]
            IN  /\ doc_node_num' = doc_node_num
                /\ tokens' = tokens
                /\ Len(kids) >= Len(old)
                /\ SubSeq(kids, 1, Len(old)) = old
                /\ \A i \in (Len(old) + 1)..Len(kids) : kids[i] = Len(data) + (i - Len(old))
                /\ Len(leaf_nodes') = Len(leaf_nodes) + Len(kids)
                /\ SubSeq(leaf_nodes', 1, Len(leaf_nodes)) = leaf_nodes
                /\ \A i \in 1..Len(kids) : leaf_nodes'[Len(leaf_nodes) + i] = kids[i]]_vars

\* A query-only batch was pushed under a parent that had a child already, behind
\* entries the queue already held.
C6_Witness ==
    /\ call.op = "add_nodes" /\ ~HasDocument(call.dataset)
    /\ Len(call.dataset.items) >= 1
    /\ Len(child_nodes[call.node]) >= 2
    /\ Len(leaf_nodes) > Len(child_nodes[call.node])
    /\ leaf_nodes[Len(leaf_nodes)] # leaf_nodes[1]

(* ------------------------------- C7 ------------------------------------ *)
\* The positions of a node sequence that hold a Document node not deleted.
LivePositions(nodes) ==
    {i \in 1..Len(nodes) : data[nodes[i]].kind = "Document" /\ ~deleted[nodes[i]]}

\* C7: for every node n, all_nodes() of n holds every node under n, deleted or
\* not, and all_documents() of n holds one entry for each Document node of
\* all_nodes() that is not deleted, in all_nodes() order, and no entry for a
\* node delete() was called on; a call of all_documents returns that sequence.
C7_DeletedExcluded ==
    /\ \A n \in Nodes :
         LET nodes == Node_all_nodes(child_nodes, n)
             docs == Node_all_documents(child_nodes, data, deleted, n)
             live == LivePositions(nodes)
         IN  /\ \A m \in Nodes : Under(parent, n, m) => m \in Range(nodes)
             /\ Len(docs) = Cardinality(live)
             /\ \A i \in live : docs[Cardinality({j \in live : j <= i})] = data[nodes[i]]
    /\ call.op = "all_documents"
         => LET nodes == Node_all_nodes(child_nodes, call.node)
                live == LivePositions(nodes)
            IN  /\ Len(result.docs) = Cardinality(live)
                /\ \A i \in live :
                     result.docs[Cardinality({j \in live : j <= i})] = data[nodes[i]]

\* all_documents was called on the root while the tree held a deleted Document
\* node and a Document node not deleted.
C7_Witness ==
    /\ call.op = "all_documents" /\ call.node = root
    /\ \E n \in Range(Tree_all_nodes) : deleted[n] /\ data[n].kind = "Document"
    /\ Len(result.docs) >= 1

(* ------------------------------- C8 ------------------------------------ *)
\* C8: no step decreases tokens or doc_node_num, and a delete step leaves both
\* unchanged.
C8_Monotone ==
    [][/\ tokens' >= tokens
       /\ doc_node_num' >= doc_node_num
       /\ DeleteStep => (tokens' = tokens /\ doc_node_num' = doc_node_num)]_vars

\* A counted Document node has just been deleted.
C8_Witness ==
    /\ call.op = "delete"
    /\ data[call.node].kind = "Document" /\ parent[call.node] # 0
    /\ deleted[call.node]
    /\ doc_node_num >= 1 /\ tokens >= 1

(* ------------------------------- C9 ------------------------------------ *)
\* The nodes add_nodes created: those with a parent.
Created == {n \in Nodes : parent[n] # 0}

\* C9: every node created by add_nodes appears exactly once in
\* Tree.all_nodes(), and every entry of leaf_nodes is in Tree.all_nodes().
C9_AllUnderRoot ==
    /\ \A n \in Created : Occurrences(Tree_all_nodes, n) = 1
    /\ \A i \in 1..Len(leaf_nodes) : leaf_nodes[i] \in Range(Tree_all_nodes)

(* ------------------------------- C10 ----------------------------------- *)
\* s lists the nodes under n in pre-order: n first, every node under n once, a
\* node before its descendants, and of two nodes in different branches the one
\* in the branch of the earlier child first.
IsPreOrder(cn, par, s, n) ==
    /\ Len(s) >= 1 /\ s[1] = n
    /\ Range(s) = {m \in 1..Len(par) : Under(par, n, m)}
    /\ \A i, j \in 1..Len(s) : i < j =>
         /\ s[i] # s[j]
         /\ ~Under(par, s[j], s[i])
         /\ \/ Under(par, s[i], s[j])
            \/ \E c \in Range(s) : \E x, y \in 1..Len(cn[c]) :
                 x < y /\ Under(par, cn[c][x], s[i]) /\ Under(par, cn[c][y], s[j])

\* C10: a call of n.all_nodes() returns the nodes under n in pre-order (n, then
\* the all_nodes() of each child in child order) and changes no field of any
\* node nor of the tree.
C10_PreOrder ==
    [][call'.op = "all_nodes"
         => /\ IsPreOrder(child_nodes', parent', result'.nodes, call'.node)
            /\ UNCHANGED <<data, parent, child_nodes, deleted,
                           tokens, leaf_nodes, doc_node_num>>]_vars

\* all_nodes was called on a root with two children.
C10_Witness ==
    /\ call.op = "all_nodes" /\ call.node = root
    /\ Len(child_nodes[root]) >= 2
    /\ Len(result.nodes) = 3

(* ========================= Document.create ============================= *)
\* settings.PAGE_CONTENT_KEYS and settings.MAX_CHUNK_SIZE: the settings module
\* sets them; the values here follow the specification, "an ordered list of
\* candidate metadata field names" and "a maximum content length".
PAGE_CONTENT_KEYS == <<"content", "summary", "title">>
MAX_CHUNK_SIZE == 2

MaxText == 3

\* An optional str: None, or a text.
None == [some |-> FALSE, text |-> <<>>]
Str(t) == [some |-> TRUE, text |-> t]

\* The truth value Python gives it: None and '' are false.
Truthy(v) == v.some /\ v.text # <<>>

\* The text of n times the character c.
Rep(c, n) == [i \in 1..n |-> c]

\* The values a metadata field, or the page_content argument, is drawn from:
\* absent, empty, and a text of each length up to MaxText written in the
\* character c.
Values(c) == {None} \cup {Str(Rep(c, n)) : n \in 0..MaxText}

Metadatas ==
    [content : {None, Str(<<>>), Str(Rep("c", MaxText))},
     summary : Values("s"),
     title : {None, Str(Rep("t", 1))}]

\* Lines 32-36 without the break: the last non-empty key wins.
RECURSIVE derive_no_break(_, _, _)
derive_no_break(metadata, keys, page_content) ==
    IF keys = <<>> THEN page_content
    ELSE IF Truthy(metadata[Head(keys)])
         THEN derive_no_break(metadata, Tail(keys), metadata[Head(keys)])
         ELSE derive_no_break(metadata, Tail(keys), page_content)

\* Lines 33-36: for k in keys: if _v := metadata.get(k): page_content = _v; break
RECURSIVE derive(_, _, _)
derive(metadata, keys, page_content) ==
    IF keys = <<>> THEN page_content
    ELSE IF Truthy(metadata[Head(keys)])
         THEN metadata[Head(keys)]
         ELSE derive(metadata, Tail(keys), page_content)

Ellipsis == <<".", ".", ".">>

\* Lines 37-38 with >= for >.
truncate_at(page_content) ==
    IF Truthy(page_content) /\ Len(page_content.text) >= MAX_CHUNK_SIZE
    THEN Str(SubSeq(page_content.text, 1, MAX_CHUNK_SIZE) \o Ellipsis)
    ELSE page_content

\* Lines 37-38: if page_content and len(page_content) > MAX_CHUNK_SIZE:
\*                  page_content = page_content[:MAX_CHUNK_SIZE] + '...'
truncate(page_content) ==
    IF Truthy(page_content) /\ Len(page_content.text) > MAX_CHUNK_SIZE
    THEN Str(SubSeq(page_content.text, 1, MAX_CHUNK_SIZE) \o Ellipsis)
    ELSE page_content

\* Document.create(metadata, page_content): the outcome is an AssertionError
\* (line 39) or the Document whose page_content is the derived, truncated text.
create(metadata, page_content) ==
    LET derived == IF ~Truthy(page_content)
                   THEN derive(metadata, PAGE_CONTENT_KEYS, page_content)
                   ELSE page_content
        final == truncate(derived)
    IN  [raised |-> ~Truthy(final), page_content |-> final]

\* A call of Document.create; the tree is not involved.
Document_create(metadata, page_content) ==
    /\ call' = [op |-> "create", metadata |-> metadata, page_content |-> page_content]
    /\ result' = create(metadata, page_content)
    /\ UNCHANGED <<data, parent, child_nodes, deleted, tokens, leaf_nodes,
                   doc_node_num, docs_passed, leaf_origin>>

InitCreate ==
    /\ data = <<Qry(<<"a", "a">>)>>
    /\ parent = <<0>>
    /\ child_nodes = << <<>> >>
    /\ deleted = <<FALSE>>
    /\ tokens = 0
    /\ leaf_nodes = <<>>
    /\ doc_node_num = 0
    /\ docs_passed = 0
    /\ leaf_origin = <<>>
    /\ call = [op |-> "none", metadata |-> [content |-> None, summary |-> None, title |-> None],
               page_content |-> None]
    /\ result = [raised |-> FALSE, page_content |-> None]

NextCreate == \E m \in Metadatas, c \in Values("p") : Document_create(m, c)

SpecCreate == InitCreate /\ [][NextCreate]_vars

(* ------------------------------- C11 ----------------------------------- *)
\* The keys of PAGE_CONTENT_KEYS whose metadata value is non-empty.
FilledKeys(metadata) ==
    {i \in 1..Len(PAGE_CONTENT_KEYS) : Truthy(metadata[PAGE_CONTENT_KEYS[i]])}

\* The text c as Document.create stores it.
Chunk(c) ==
    IF Len(c) > MAX_CHUNK_SIZE THEN SubSeq(c, 1, MAX_CHUNK_SIZE) \o Ellipsis ELSE c

\* C11: create uses a non-empty page_content argument and ignores the metadata;
\* without one it uses the value of the first key of PAGE_CONTENT_KEYS whose
\* metadata value is non-empty; with neither it fails; a Document it returns
\* has non-empty page_content.
C11_CreateContent ==
    call.op = "create" =>
      /\ Truthy(call.page_content)
           => ~result.raised /\ result.page_content = Str(Chunk(call.page_content.text))
      /\ (~Truthy(call.page_content) /\ FilledKeys(call.metadata) # {})
           => \E i \in FilledKeys(call.metadata) :
                /\ \A j \in FilledKeys(call.metadata) : i <= j
                /\ ~result.raised
                /\ result.page_content
                     = Str(Chunk(call.metadata[PAGE_CONTENT_KEYS[i]].text))
      /\ (~Truthy(call.page_content) /\ FilledKeys(call.metadata) = {})
           => result.raised
      /\ ~result.raised => Truthy(result.page_content)

\* create derived the content from the second key while a later key was filled
\* too.
C11_Witness ==
    /\ call.op = "create" /\ ~result.raised
    /\ ~Truthy(call.page_content)
    /\ ~Truthy(call.metadata.content)
    /\ Truthy(call.metadata.summary) /\ Truthy(call.metadata.title)
    /\ result.page_content = call.metadata.summary

(* ------------------------------- C12 ----------------------------------- *)
\* The content that reaches line 37: the argument, or the derived value.
Reaching ==
    IF Truthy(call.page_content) THEN call.page_content
    ELSE derive(call.metadata, PAGE_CONTENT_KEYS, call.page_content)

\* C12: a content c longer than MAX_CHUNK_SIZE becomes its first MAX_CHUNK_SIZE
\* characters followed by '...'; a content of at most MAX_CHUNK_SIZE characters
\* is stored unchanged.
C12_Truncation ==
    (call.op = "create" /\ Truthy(Reaching)) =>
      LET c == Reaching.text
          r == result.page_content.text
      IN  /\ ~result.raised
          /\ Len(c) > MAX_CHUNK_SIZE
               => /\ Len(r) = MAX_CHUNK_SIZE + 3
                  /\ \A i \in 1..MAX_CHUNK_SIZE : r[i] = c[i]
                  /\ \A i \in 1..3 : r[MAX_CHUNK_SIZE + i] = "."
          /\ Len(c) <= MAX_CHUNK_SIZE => r = c

\* create stored a content of exactly MAX_CHUNK_SIZE characters.
C12_Witness ==
    /\ call.op = "create" /\ ~result.raised
    /\ Truthy(Reaching) /\ Len(Reaching.text) = MAX_CHUNK_SIZE
    /\ result.page_content = Reaching

\* create truncated a content of more than MAX_CHUNK_SIZE characters.
C12_WitnessLong ==
    /\ call.op = "create" /\ ~result.raised
    /\ Truthy(Reaching) /\ Len(Reaching.text) > MAX_CHUNK_SIZE
    /\ Len(result.page_content.text) = MAX_CHUNK_SIZE + 3

(* ================= direct calls and the queue's consumer =============== *)
\* A call of p.add_child_nodes(items) made by a caller, not through the Tree.
Node_add_child_nodes(p, items) ==
    /\ Len(data) + Len(items) <= MaxNodes
    /\ add_child_nodes(p, items)
    /\ call' = [op |-> "add_child_nodes", node |-> p,
                dataset |-> [single |-> FALSE, items |-> items], raised |-> FALSE,
                was_deleted |-> FALSE]
    /\ result' = NoResult
    /\ UNCHANGED <<tokens, leaf_nodes, doc_node_num, docs_passed, leaf_origin>>

\* Any sequence of add_nodes, add_child_nodes and delete calls.
NextChildren ==
    \/ \E p \in Nodes, ds \in Datasets : add_nodes(p, ds)
    \/ \E n \in Nodes : delete(n)
    \/ \E p \in Nodes, items \in SeqsUpTo(RootItems, 1) : Node_add_child_nodes(p, items)

SpecChildren == Init /\ [][NextChildren]_vars

\* The consumer takes the entry at the front: tree.leaf_nodes.popleft()
popleft ==
    /\ leaf_nodes # <<>>
    /\ leaf_nodes' = Tail(leaf_nodes)
    /\ leaf_origin' = Tail(leaf_origin)
    /\ call' = [op |-> "popleft", node |-> Head(leaf_nodes), dataset |-> NoDataset,
                raised |-> FALSE, was_deleted |-> FALSE]
    /\ result' = NoResult
    /\ UNCHANGED <<data, parent, child_nodes, deleted, tokens, doc_node_num, docs_passed>>

\* The consumer takes the entry at the back: tree.leaf_nodes.pop()
pop ==
    /\ leaf_nodes # <<>>
    /\ leaf_nodes' = SubSeq(leaf_nodes, 1, Len(leaf_nodes) - 1)
    /\ leaf_origin' = SubSeq(leaf_origin, 1, Len(leaf_origin) - 1)
    /\ call' = [op |-> "pop", node |-> leaf_nodes[Len(leaf_nodes)], dataset |-> NoDataset,
                raised |-> FALSE, was_deleted |-> FALSE]
    /\ result' = NoResult
    /\ UNCHANGED <<data, parent, child_nodes, deleted, tokens, doc_node_num, docs_passed>>

\* Any interleaving of add_nodes calls and pops of the consumer.
NextConsumer ==
    \/ \E p \in Nodes, ds \in Datasets : add_nodes(p, ds)
    \/ popleft
    \/ pop

SpecConsumer == Init /\ [][NextConsumer]_vars

(* ------------------------------- C13 ----------------------------------- *)
\* C13: delete() on a node delete() was already called on changes nothing: the
\* node stays deleted and every field of every node and of the tree is as the
\* first call left it.
C13_DeleteIdempotent ==
    [][(DeleteStep /\ deleted[call'.node])
         => /\ deleted'[call'.node] = TRUE
            /\ UNCHANGED <<data, parent, child_nodes, deleted,
                           tokens, leaf_nodes, doc_node_num>>]_vars

\* delete() has just been called on a node that was deleted already.
C13_Witness ==
    /\ call.op = "delete" /\ call.was_deleted
    /\ deleted[call.node]

(* ------------------------------- C14 ----------------------------------- *)
\* C14: no step changes a node's parent; the child list of a node before a step
\* is a prefix of its child list after it; every child c of a node n has
\* c.parent = n.
C14_AppendOnly ==
    [][/\ \A n \in Nodes :
            /\ parent'[n] = parent[n]
            /\ Len(child_nodes'[n]) >= Len(child_nodes[n])
            /\ SubSeq(child_nodes'[n], 1, Len(child_nodes[n])) = child_nodes[n]
       /\ \A n \in 1..Len(data') : \A i \in 1..Len(child_nodes'[n]) :
            parent'[child_nodes'[n][i]] = n]_vars

\* add_child_nodes has just appended a child to a node that had one.
C14_Witness ==
    /\ call.op = "add_child_nodes"
    /\ Len(call.dataset.items) = 1
    /\ Len(child_nodes[call.node]) >= 2
    /\ child_nodes[call.node][Len(child_nodes[call.node])] = Len(data)

(* ------------------------------- C15 ----------------------------------- *)
\* C15: delete() on n sets n.deleted and changes nothing else: not the deleted
\* flag of another node, nor a child list, a parent link, the result of
\* all_nodes(), leaf_nodes, tokens or doc_node_num.
C15_DeleteFrame ==
    [][DeleteStep
         => /\ deleted'[call'.node] = TRUE
            /\ \A m \in Nodes : m # call'.node => deleted'[m] = deleted[m]
            /\ UNCHANGED <<data, parent, child_nodes, tokens, leaf_nodes, doc_node_num>>
            /\ \A m \in Nodes :
                 Node_all_nodes(child_nodes', m) = Node_all_nodes(child_nodes, m)]_vars

\* delete() has just been called on a node whose parent and child are not
\* deleted.
C15_Witness ==
    /\ call.op = "delete" /\ ~call.was_deleted
    /\ parent[call.node] # 0 /\ ~deleted[parent[call.node]]
    /\ \E c \in Range(child_nodes[call.node]) : ~deleted[c]

(* ------------------------------- C16 ----------------------------------- *)
\* C16: an add_nodes or delete step keeps the entries leaf_nodes held, in their
\* order and next to each other, with the new entries all in front of them or
\* all behind them, so leaf_nodes never gets shorter.
C16_LeafKept ==
    [][(AddStep \/ DeleteStep)
         => LET old == Len(leaf_nodes)
                new == Len(leaf_nodes')
            IN  /\ new >= old
                /\ \/ SubSeq(leaf_nodes', 1, old) = leaf_nodes
                   \/ SubSeq(leaf_nodes', new - old + 1, new) = leaf_nodes]_vars

\* add_nodes has just pushed onto a queue that holds entries of a document
\* batch and of a query-only batch.
C16_Witness ==
    /\ call.op = "add_nodes"
    /\ Len(leaf_nodes) > Len(child_nodes[call.node])
    /\ \E i, j \in 1..Len(leaf_origin) : leaf_origin[i] /\ ~leaf_origin[j]

(* ------------------------------- C17 ----------------------------------- *)
\* C17: add_nodes(parent, []) creates no node, leaves tokens and doc_node_num
\* unchanged and appends parent's child list, in order, to the back of
\* leaf_nodes.
C17_EmptyDataset ==
    [][(AddStep /\ ~call'.dataset.single /\ call'.dataset.items = <<>>)
         => /\ Len(data') = Len(data)
            /\ child_nodes' = child_nodes
            /\ tokens' = tokens /\ doc_node_num' = doc_node_num
            /\ leaf_nodes' = leaf_nodes \o child_nodes[call'.node]]_vars

\* add_nodes(parent, []) has just pushed parent's child behind another node's
\* entry.
C17_Witness ==
    /\ call.op = "add_nodes" /\ ~call.dataset.single /\ call.dataset.items = <<>>
    /\ Len(child_nodes[call.node]) >= 1
    /\ Len(leaf_nodes) > Len(child_nodes[call.node])
    /\ leaf_nodes[1] \notin Range(child_nodes[call.node])
    /\ leaf_nodes[Len(leaf_nodes)] \in Range(child_nodes[call.node])

(* ------------------------------- C18 ----------------------------------- *)
\* C18: in leaf_nodes every entry pushed by an add_nodes call with a Document in
\* its dataset is nearer the front than every entry pushed by a query-only
\* call, whatever the consumer popped from either end.
C18_DocumentsFirst ==
    /\ Len(leaf_origin) = Len(leaf_nodes)
    /\ \A i, j \in 1..Len(leaf_origin) : (leaf_origin[i] /\ ~leaf_origin[j]) => i < j

\* The consumer has just popped, and the queue holds entries of both kinds.
C18_Witness ==
    /\ call.op \in {"pop", "popleft"}
    /\ \E i, j \in 1..Len(leaf_origin) : leaf_origin[i] /\ ~leaf_origin[j]

(* ------------------------------- C19 ----------------------------------- *)
\* C19: an add_nodes(parent, dataset) call makes leaf_nodes longer by the length
\* of parent.child_nodes after the call: every child of parent, new or not,
\* gets one more entry and no other node does; no other step changes a node's
\* number of entries.  Hence a node has one entry for every add_nodes call on
\* its parent since its creation, and leaf_nodes holds duplicates.
C19_OneEntryPerCall ==
    [][/\ AddStep
            => /\ Len(leaf_nodes') = Len(leaf_nodes) + Len(child_nodes'[call'.node])
               /\ \A n \in 1..Len(data') :
                    Occurrences(leaf_nodes', n)
                      = (IF n \in Nodes THEN Occurrences(leaf_nodes, n) ELSE 0)
                          + (IF parent'[n] = call'.node THEN 1 ELSE 0)
       /\ ~AddStep
            => \A n \in Nodes : Occurrences(leaf_nodes', n) = Occurrences(leaf_nodes, n)]_vars

\* add_nodes has just pushed a node that was in leaf_nodes already.
C19_Witness ==
    /\ call.op = "add_nodes"
    /\ \E n \in Range(child_nodes[call.node]) : Occurrences(leaf_nodes, n) >= 2

====
